---- MODULE Spec2Model ----
(***************************************************************************)
(* A model of conleth/dcf-calc: the snapshot provider's time-bounded       *)
(* cache (backend/data_provider.py), the scenario valuation engine         *)
(* (backend/valuation_models.py) and the valuation orchestrator            *)
(* (backend/valuation_service.py).                                         *)
(*                                                                         *)
(* Numbers.  The program computes in Python floats.  The model computes    *)
(* in exact rationals, kept in lowest terms as records [n, d] with d > 0,  *)
(* so that record equality is numeric equality.  Rounding error of the     *)
(* floating-point operations is therefore outside the model; every         *)
(* comparison, clamp, branch and division of the code is kept.             *)
(***************************************************************************)
EXTENDS Integers, Sequences, FiniteSets, TLC

VARIABLES cache, now, produced, pc, loc, call, ret

vars == <<cache, now, produced, pc, loc, call, ret>>

(***************************************************************************)
(* Exact rational arithmetic.                                              *)
(***************************************************************************)
Abs(x) == IF x < 0 THEN -x ELSE x

RECURSIVE GCD(_, _)
GCD(a, b) == IF b = 0 THEN a ELSE GCD(b, a % b)

\* n/d in lowest terms with a positive denominator, g being gcd(|n|, |d|).
Reduce(n, d, g) ==
    IF d < 0 THEN [n |-> -(n \div g), d |-> -(d \div g)]
    ELSE [n |-> n \div g, d |-> d \div g]

Norm(n, d) == Reduce(n, d, GCD(Abs(n), Abs(d)))

Q(n, d) == Norm(n, d)
Z(n) == [n |-> n, d |-> 1]

\* a + b over the least common denominator, g being gcd(a.d, b.d).
AddOver(a, b, g) ==
    Norm(a.n * (b.d \div g) + b.n * (a.d \div g), (a.d \div g) * b.d)

RAdd(a, b) ==
    IF a.d = b.d THEN Norm(a.n + b.n, a.d) ELSE AddOver(a, b, GCD(a.d, b.d))

RNeg(a) == [n |-> -a.n, d |-> a.d]
RSub(a, b) == RAdd(a, RNeg(b))

\* a * b reduced crosswise, g1 being gcd(|a.n|, b.d) and g2 gcd(|b.n|, a.d):
\* the product of two fractions in lowest terms is then in lowest terms.
MulOver(a, b, g1, g2) ==
    [n |-> (a.n \div g1) * (b.n \div g2), d |-> (a.d \div g2) * (b.d \div g1)]

RMul(a, b) ==
    IF a.d = 1 /\ b.d = 1 THEN [n |-> a.n * b.n, d |-> 1]
    ELSE MulOver(a, b, GCD(Abs(a.n), b.d), GCD(Abs(b.n), a.d))

\* Division by a non-zero rational (every division of the code is guarded).
RDiv(a, b) == RMul(a, IF b.n < 0 THEN [n |-> -b.d, d |-> -b.n] ELSE [n |-> b.d, d |-> b.n])

LessOver(a, b, g) == a.n * (b.d \div g) < b.n * (a.d \div g)

RLess(a, b) == IF a.d = b.d THEN a.n < b.n ELSE LessOver(a, b, GCD(a.d, b.d))

RLeq(a, b) == a = b \/ RLess(a, b)
RMax(a, b) == IF RLess(a, b) THEN b ELSE a
RMin(a, b) == IF RLess(b, a) THEN b ELSE a

RECURSIVE RPow(_, _)
RPow(a, k) == IF k = 0 THEN Z(1) ELSE RMul(a, RPow(a, k - 1))

RECURSIVE RSum(_)
RSum(s) == IF s = <<>> THEN Z(0) ELSE RAdd(Head(s), RSum(Tail(s)))

\* round(x) to the nearest integer, ties to even: what the format
\* specifications ".0%" and ".1f" do to the exact value.
RoundHalfEven(a) ==
    LET fl == IF a.n >= 0 THEN a.n \div a.d ELSE -((-a.n + a.d - 1) \div a.d)
        r2 == 2 * (a.n - fl * a.d)
    IN  IF r2 < a.d THEN fl
        ELSE IF r2 > a.d THEN fl + 1
        ELSE IF fl % 2 = 0 THEN fl ELSE fl + 1

(***************************************************************************)
(* Sequences.                                                              *)
(***************************************************************************)
BoundedSeq(S, k) == UNION {[1..m -> S] : m \in 0..k}

\* list(dict.fromkeys(xs)): the first occurrence of each element, in order.
DedupeStep(front, last) ==
    IF \E i \in 1..Len(front) : front[i] = last THEN front ELSE Append(front, last)

RECURSIVE Dedupe(_)
Dedupe(xs) ==
    IF xs = <<>> THEN <<>>
    ELSE DedupeStep(Dedupe(SubSeq(xs, 1, Len(xs) - 1)), xs[Len(xs)])

RECURSIVE Concat(_)
Concat(ss) == IF ss = <<>> THEN <<>> ELSE Head(ss) \o Concat(Tail(ss))

(***************************************************************************)
(* The scenario valuation engine (backend/valuation_models.py).            *)
(* A ScenarioProfile is [name, growth_rates, terminal_multiple,            *)
(* probability]; a warning is the message's template and the values it     *)
(* formats, <<scenario name, template, formatted number>>.                 *)
(***************************************************************************)
DiscountedCashFlowModel(discount_rate, margin_of_safety) ==
    [discount_rate    |-> RMax(discount_rate, Z(0)),
     margin_of_safety |-> RMax(RMin(margin_of_safety, Q(99, 100)), Z(0))]

\* class DividendDiscountModel(DiscountedCashFlowModel): pass
DividendDiscountModel(discount_rate, margin_of_safety) ==
    DiscountedCashFlowModel(discount_rate, margin_of_safety)

\* The loop's running value after year idx: value = value * (1 + rate).
RECURSIVE CashflowAt(_, _, _)
CashflowAt(base_cashflow_per_share, growth_rates, idx) ==
    IF idx = 0 THEN base_cashflow_per_share
    ELSE RMul(CashflowAt(base_cashflow_per_share, growth_rates, idx - 1),
              RAdd(Z(1), growth_rates[idx]))

DiscountMut(model, value, idx) ==
    RDiv(value, RPow(RAdd(Z(1), model.discount_rate), idx - 1))

\* value / ((1 + self.discount_rate) ** idx)
Discount(model, value, idx) ==
    RDiv(value, RPow(RAdd(Z(1), model.discount_rate), idx))

BuyPriceMut(model, intrinsic_value) ==
    RMul(intrinsic_value, RAdd(Z(1), model.margin_of_safety))

\* intrinsic_value * (1 - self.margin_of_safety)
BuyPrice(model, intrinsic_value) ==
    RMul(intrinsic_value, RSub(Z(1), model.margin_of_safety))

\* The warnings the loop appends for one growth rate, "{rate:.0%}" formatted.
GrowthWarnings(name, rate) ==
    (IF RLess(Q(15, 100), rate)
     THEN <<<<name, "growth exceeds conservative range",
              RoundHalfEven(RMul(rate, Z(100)))>>>> ELSE <<>>)
    \o
    (IF RLess(rate, Q(-1, 10))
     THEN <<<<name, "growth implies steep decline",
              RoundHalfEven(RMul(rate, Z(100)))>>>> ELSE <<>>)

\* The warnings for the terminal multiple, "{terminal_multiple:.1f}" formatted
\* (the number kept in tenths).
TerminalWarnings(name, terminal_multiple) ==
    (IF RLess(Z(20), terminal_multiple)
     THEN <<<<name, "terminal multiple is aggressive",
              RoundHalfEven(RMul(terminal_multiple, Z(10)))>>>> ELSE <<>>)
    \o
    (IF RLess(terminal_multiple, Z(5))
     THEN <<<<name, "terminal multiple is unusually low",
              RoundHalfEven(RMul(terminal_multiple, Z(10)))>>>> ELSE <<>>)

\* The result of a call: a value, or the exception it raised.
Ok(v) == [ok |-> TRUE, value |-> v]
Raise(kind, msg) == [ok |-> FALSE, error |-> kind, message |-> msg]

\* ValueError is the program's InvalidInput condition.
InvalidInput == "ValueError"

\* The ScenarioValuation, from the intrinsic value on (lines 108-130).
ScenarioResult(model, current_price, scenario, cashflows, discounted, terminal_value, discounted_terminal, intrinsic_value) ==
    LET years     == Len(scenario.growth_rates)
        buy_price == BuyPrice(model, intrinsic_value)
        upside    == IF current_price # Z(0)
                     THEN RSub(RDiv(intrinsic_value, current_price), Z(1)) ELSE Z(0)
        downside  == IF current_price # Z(0)
                     THEN RSub(RDiv(buy_price, current_price), Z(1)) ELSE Z(0)
        warnings  == Concat([idx \in 1..years |->
                        GrowthWarnings(scenario.name, scenario.growth_rates[idx])])
                     \o TerminalWarnings(scenario.name, scenario.terminal_multiple)
    IN  [name                      |-> scenario.name,
         intrinsic_value           |-> intrinsic_value,
         buy_price                 |-> buy_price,
         upside                    |-> upside,
         downside                  |-> downside,
         margin_of_safety_pct      |-> model.margin_of_safety,
         effective_growth_rates    |-> scenario.growth_rates,
         terminal_multiple         |-> scenario.terminal_multiple,
         cashflows                 |-> cashflows,
         discounted_cashflows      |-> discounted,
         terminal_value            |-> terminal_value,
         discounted_terminal_value |-> discounted_terminal,
         warnings                  |-> Dedupe(warnings)]

\* The terminal value and the intrinsic value of the loop's lists
\* (lines 104-107).
ScenarioTotals(model, current_price, scenario, cashflows, discounted, terminal_value) ==
    LET years == Len(scenario.growth_rates)
        discounted_terminal ==
            RDiv(terminal_value, RPow(RAdd(Z(1), model.discount_rate), years))
    IN  ScenarioResult(model, current_price, scenario, cashflows, discounted,
                       terminal_value, discounted_terminal,
                       RAdd(RSum(discounted), discounted_terminal))

\* The loop's two lists (lines 90-98).
ScenarioCashflows(base_cashflow_per_share, growth_rates) ==
    [idx \in 1..Len(growth_rates) |->
        CashflowAt(base_cashflow_per_share, growth_rates, idx)]

ScenarioDiscounted(model, cashflows) ==
    [idx \in 1..Len(cashflows) |-> Discount(model, cashflows[idx], idx)]

ScenarioLists(model, current_price, scenario, cashflows) ==
    ScenarioTotals(model, current_price, scenario, cashflows,
                   ScenarioDiscounted(model, cashflows),
                   RMul(cashflows[Len(cashflows)], scenario.terminal_multiple))

EvaluateScenario(model, base_cashflow_per_share, current_price, scenario) ==
    IF Len(scenario.growth_rates) = 0
    THEN Raise(InvalidInput, "Growth rates are required for at least one forecast year.")
    ELSE Ok(ScenarioLists(model, current_price, scenario,
                          ScenarioCashflows(base_cashflow_per_share,
                                            scenario.growth_rates)))

\* One turn of evaluate's loop: an exception ends it, a valuation is appended.
LoopStep(before, valuation) ==
    IF ~before.ok THEN before
    ELSE IF ~valuation.ok THEN valuation
    ELSE Ok(Append(before.value, valuation.value))

\* A faulty loop that checks only the first scenario's length.
RECURSIVE EvaluateLoopMut(_, _, _, _, _)
EvaluateLoopMut(model, per_share, current_price, scenarios, k) ==
    IF k = 0 THEN Ok(<<>>)
    ELSE LoopStep(EvaluateLoopMut(model, per_share, current_price, scenarios, k - 1),
                  EvaluateScenario(model, per_share, current_price,
                     IF k = 1 \/ Len(scenarios[k].growth_rates) > 0 THEN scenarios[k]
                     ELSE [scenarios[k] EXCEPT !.growth_rates = <<Z(0)>>]))

\* for scenario in scenarios: the results of the first k scenarios, or the
\* exception of the first one that raises.
RECURSIVE EvaluateLoop(_, _, _, _, _)
EvaluateLoop(model, per_share, current_price, scenarios, k) ==
    IF k = 0 THEN Ok(<<>>)
    ELSE LoopStep(EvaluateLoop(model, per_share, current_price, scenarios, k - 1),
                  EvaluateScenario(model, per_share, current_price, scenarios[k]))

ProbabilitiesMut(scenarios) ==
    LET total_probability == RSum([i \in 1..Len(scenarios) |-> scenarios[i].probability])
    IN  IF RLess(total_probability, Z(0))
        THEN [i \in 1..Len(scenarios) |-> Q(1, Len(scenarios))]
        ELSE [i \in 1..Len(scenarios) |->
                IF total_probability = Z(0) THEN Z(0)
                ELSE RDiv(scenarios[i].probability, total_probability)]

\* The normalized probabilities (a local of evaluate).
Probabilities(scenarios) ==
    LET total_probability == RSum([i \in 1..Len(scenarios) |-> scenarios[i].probability])
    IN  IF RLeq(total_probability, Z(0))
        THEN [i \in 1..Len(scenarios) |-> Q(1, Len(scenarios))]
        ELSE [i \in 1..Len(scenarios) |->
                RDiv(scenarios[i].probability, total_probability)]

\* A per-share base that divides by a positive share count only.
PerShareMut(base_cashflow, shares_outstanding) ==
    IF RLess(Z(0), shares_outstanding)
    THEN RDiv(base_cashflow, shares_outstanding) ELSE base_cashflow

\* base_cashflow / shares_outstanding if shares_outstanding else base_cashflow
PerShare(base_cashflow, shares_outstanding) ==
    IF shares_outstanding # Z(0)
    THEN RDiv(base_cashflow, shares_outstanding) ELSE base_cashflow

\* The AggregateValuation (lines 68-78).
Aggregate(model, current_price, results, weighted_intrinsic) ==
    [scenario_results           |-> results,
     weighted_intrinsic_value   |-> weighted_intrinsic,
     margin_of_safety_buy_price |-> BuyPrice(model, weighted_intrinsic),
     current_price              |-> current_price,
     metadata                   |-> [discount_rate    |-> model.discount_rate,
                                     margin_of_safety |-> model.margin_of_safety],
     warnings                   |-> Dedupe(Concat([i \in 1..Len(results) |->
                                                      results[i].warnings]))]

\* sum(v.intrinsic_value * p for v, p in zip(results, probabilities))
Weighted(results, probabilities) ==
    RSum([i \in 1..Len(results) |->
            RMul(results[i].intrinsic_value, probabilities[i])])

\* evaluate after its loop (lines 62-78).
AfterLoop(model, current_price, scenarios, loop) ==
    IF ~loop.ok THEN loop
    ELSE Ok(Aggregate(model, current_price, loop.value,
                      Weighted(loop.value, Probabilities(scenarios))))

\* evaluate from its loop on (lines 55-78), given the per-share base.
EvaluatePerShare(model, per_share, current_price, scenarios) ==
    AfterLoop(model, current_price, scenarios,
              EvaluateLoop(model, per_share, current_price, scenarios, Len(scenarios)))

\* A faulty evaluate that divides by the share count unguarded.
EvaluateMut(model, base_cashflow, current_price, shares_outstanding, scenarios) ==
    IF shares_outstanding = Z(0)
    THEN Raise("ZeroDivisionError", "float division by zero")
    ELSE EvaluatePerShare(model, RDiv(base_cashflow, shares_outstanding),
                          current_price, scenarios)

Evaluate(model, base_cashflow, current_price, shares_outstanding, scenarios) ==
    EvaluatePerShare(model, PerShare(base_cashflow, shares_outstanding),
                     current_price, scenarios)

(***************************************************************************)
(* State shared by the specifications.  Each specification moves the       *)
(* variables of its own component and leaves the others as Init set them.  *)
(*   cache     the provider's _cache: normalized ticker -> entry           *)
(*   now       the wall clock, time.time()                                 *)
(*   produced  every snapshot a fetch has built so far (history)           *)
(*   pc, loc   the position and locals of each concurrent get_snapshot     *)
(*   call, ret the call in progress or last made, and what it returned     *)
(***************************************************************************)
Threads == {1, 2}
NoCall  == [op |-> "none"]
Pending == [ok |-> FALSE, error |-> "pending", message |-> ""]
EmptyCache == [k \in {} |-> 0]

IdleState ==
    /\ cache = EmptyCache
    /\ now = 0
    /\ produced = {}
    /\ pc = [t \in Threads |-> "idle"]
    /\ loc = [t \in Threads |-> NoCall]

(***************************************************************************)
(* EngineSpec: DiscountedCashFlowModel(...).evaluate(...) applied to       *)
(* bounded inputs.  Single-scenario calls vary the growth-rate sequence,   *)
(* the terminal multiple and the model's parameters; list calls vary the   *)
(* number of scenarios, their probabilities and the share count.           *)
(***************************************************************************)
MaxYears     == 3
MaxScenarios == 3

Rates       == {Q(-1, 2), Z(0), Q(1, 4)}
Multiples   == {Z(4), Z(12), Z(24)}
Margins     == {Q(-1, 2), Z(0), Q(1, 2), Z(2)}
ListGrowths == {<<>>, <<Q(1, 4)>>}
ListProbs   == {Z(-1), Z(0), Z(2)}

SingleScenarioCalls ==
    [op : {"evaluate"},
     discount_rate : {Q(-1, 2), Q(1, 4)}, margin_of_safety : Margins,
     base_cashflow : {Z(-8), Z(8)}, current_price : {Z(0), Z(4)},
     shares_outstanding : {Z(0), Z(2)},
     scenarios : {<<p>> : p \in [name : {<<"S">>}, growth_rates : BoundedSeq(Rates, MaxYears),
                                 terminal_multiple : Multiples, probability : {Z(1)}]}]

ListCalls ==
    [op : {"evaluate"},
     discount_rate : {Q(1, 4)}, margin_of_safety : {Z(0), Q(1, 2)},
     base_cashflow : {Z(-8), Z(8)}, current_price : {Z(4)},
     shares_outstanding : {Z(-2), Z(0), Z(2)},
     scenarios : BoundedSeq([name : {<<"S">>}, growth_rates : ListGrowths,
                             terminal_multiple : {Z(12)}, probability : ListProbs],
                            MaxScenarios)]

EngineInit ==
    /\ IdleState
    /\ call \in SingleScenarioCalls \cup ListCalls
    /\ ret = Pending

CallEvaluate ==
    /\ call.op = "evaluate"
    /\ ret = Pending
    /\ ret' = Evaluate(DiscountedCashFlowModel(call.discount_rate, call.margin_of_safety),
                       call.base_cashflow, call.current_price,
                       call.shares_outstanding, call.scenarios)
    /\ UNCHANGED <<cache, now, produced, pc, loc, call>>

EngineNext == CallEvaluate

EngineSpec == EngineInit /\ [][EngineNext]_vars

(***************************************************************************)
(* Claims about the engine, under EngineSpec.                              *)
(***************************************************************************)
Evaluated == call.op = "evaluate" /\ ret # Pending
TheModel  == DiscountedCashFlowModel(call.discount_rate, call.margin_of_safety)
ZeroYears(scenarios) ==
    {i \in 1..Len(scenarios) : Len(scenarios[i].growth_rates) = 0}

\* C3: evaluate raises InvalidInput, and returns no AggregateValuation,
\* whenever some scenario of the list has a growth-rate sequence of length
\* zero, wherever that scenario stands in the list.
C3_ZeroYearsRaises ==
    (Evaluated /\ ZeroYears(call.scenarios) # {})
        => (~ret.ok /\ ret.error = InvalidInput)

\* A three-scenario call whose only zero-length scenario is the last one has
\* been evaluated.
C3_Witness ==
    /\ Evaluated
    /\ Len(call.scenarios) = 3
    /\ ZeroYears(call.scenarios) = {3}
    /\ ~ret.ok

ConstantGrowth(scenario) ==
    \A i \in 1..Len(scenario.growth_rates) :
        scenario.growth_rates[i] = scenario.growth_rates[1]

\* sum over i = 1..N of b*(1+g)^i/(1+r)^i, plus b*(1+g)^N*m/(1+r)^N
ClosedForm(b, g, m, r, N) ==
    RAdd(RSum([i \in 1..N |->
                 RDiv(RMul(b, RPow(RAdd(Z(1), g), i)), RPow(RAdd(Z(1), r), i))]),
         RDiv(RMul(RMul(b, RPow(RAdd(Z(1), g), N)), m), RPow(RAdd(Z(1), r), N)))

\* C4: for a single scenario with constant growth rate g over N >= 1 years,
\* terminal multiple m, per-share base b and the model's discount rate r, the
\* intrinsic value is the closed form; year i's cash flow is b*(1+g)^i and the
\* terminal value is the last year's cash flow times m.
C4_ClosedForm ==
    (/\ Evaluated
     /\ Len(call.scenarios) = 1
     /\ Len(call.scenarios[1].growth_rates) >= 1
     /\ ConstantGrowth(call.scenarios[1]))
        => LET sc == call.scenarios[1]
               N  == Len(sc.growth_rates)
               g  == sc.growth_rates[1]
               m  == sc.terminal_multiple
               b  == PerShare(call.base_cashflow, call.shares_outstanding)
               r  == TheModel.discount_rate
           IN  /\ ret.ok
               /\ LET v == ret.value.scenario_results[1]
                  IN  /\ v.intrinsic_value = ClosedForm(b, g, m, r, N)
                      /\ \A i \in 1..N :
                            v.cashflows[i] = RMul(b, RPow(RAdd(Z(1), g), i))
                      /\ v.terminal_value = RMul(v.cashflows[N], m)

\* A three-year constant-growth scenario at a positive discount rate has been
\* evaluated.
C4_Witness ==
    /\ Evaluated /\ ret.ok
    /\ Len(call.scenarios) = 1
    /\ call.scenarios[1].growth_rates = <<Q(1, 4), Q(1, 4), Q(1, 4)>>
    /\ call.scenarios[1].terminal_multiple = Z(12)
    /\ TheModel.discount_rate = Q(1, 4)
    /\ call.shares_outstanding = Z(2)

ProbabilityClaims(scenarios, value) ==
    LET probabilities == Probabilities(scenarios)
        n == Len(scenarios)
    IN  /\ RSum(probabilities) = Z(1)
        /\ (\A i \in 1..n : RLeq(scenarios[i].probability, Z(0)))
              => \A i \in 1..n : probabilities[i] = Q(1, n)
        /\ value.weighted_intrinsic_value =
              RSum([i \in 1..n |-> RMul(value.scenario_results[i].intrinsic_value,
                                        probabilities[i])])

\* C5 as stated: for all scenario lists that evaluate accepts, the normalized
\* probabilities sum to 1, are uniform when every input probability is <= 0,
\* and weight the scenarios' intrinsic values.
C5_AllScenarioSets ==
    (Evaluated /\ ret.ok) => ProbabilityClaims(call.scenarios, ret.value)

\* C5 amended: the same, for every non-empty scenario list.
C5_NonEmptySets ==
    (Evaluated /\ ret.ok /\ Len(call.scenarios) >= 1)
        => ProbabilityClaims(call.scenarios, ret.value)

\* Three scenarios whose probabilities are all <= 0, one of them negative,
\* have been weighted.
C5_Witness ==
    /\ Evaluated /\ ret.ok
    /\ Len(call.scenarios) = 3
    /\ \A i \in 1..3 : RLeq(call.scenarios[i].probability, Z(0))
    /\ \E i \in 1..3 : call.scenarios[i].probability = Z(-1)

MarginInRange(m) == RLeq(Z(0), m) /\ RLess(m, Q(99, 100))

\* Every (intrinsic value, buy price) pair of a result: one per scenario, and
\* the aggregate's.
ValuePairs(value) ==
    {<<value.scenario_results[i].intrinsic_value, value.scenario_results[i].buy_price>> :
        i \in 1..Len(value.scenario_results)}
    \cup {<<value.weighted_intrinsic_value, value.margin_of_safety_buy_price>>}

\* C6 as stated: with the margin in [0, 0.99), every buy price is <= its
\* intrinsic value, and equal to it when the margin is 0, for every base cash
\* flow, growth-rate sequence and terminal multiple.
C6_BuyAtMostIntrinsic ==
    (Evaluated /\ ret.ok /\ MarginInRange(call.margin_of_safety))
        => \A p \in ValuePairs(ret.value) :
              /\ RLeq(p[2], p[1])
              /\ call.margin_of_safety = Z(0) => p[2] = p[1]

\* C6 amended: with the margin in [0, 0.99), a buy price is <= its intrinsic
\* value when that intrinsic value is >= 0 and >= it when the intrinsic value
\* is <= 0; it equals the intrinsic value when the margin is 0.
C6_BuyAtMostNonNegativeIntrinsic ==
    (Evaluated /\ ret.ok /\ MarginInRange(call.margin_of_safety))
        => \A p \in ValuePairs(ret.value) :
              /\ RLeq(Z(0), p[1]) => RLeq(p[2], p[1])
              /\ RLeq(p[1], Z(0)) => RLeq(p[1], p[2])
              /\ call.margin_of_safety = Z(0) => p[2] = p[1]

\* A positive intrinsic value has been marked down by a margin of 1/2, for a
\* scenario and for the aggregate.
C6_Witness ==
    /\ Evaluated /\ ret.ok
    /\ call.margin_of_safety = Q(1, 2)
    /\ Len(call.scenarios) >= 2
    /\ \A p \in ValuePairs(ret.value) : RLess(Z(0), p[1]) /\ RLess(p[2], p[1])

\* The per-share base a returned valuation was computed from shows in each
\* scenario's first projected cash flow, base * (1 + first growth rate).
FirstCashflowFrom(per_share, scenario) ==
    RMul(per_share, RAdd(Z(1), scenario.growth_rates[1]))

UsedPerShare(per_share) ==
    \A i \in 1..Len(call.scenarios) :
        ret.value.scenario_results[i].cashflows[1]
            = FirstCashflowFrom(per_share, call.scenarios[i])

\* C11: the per-share base of every scenario is base_cashflow divided by
\* shares_outstanding when shares_outstanding > 0, and base_cashflow itself
\* for every other share count, zero or negative.
C11_PerShareBase ==
    (Evaluated /\ ret.ok)
        => UsedPerShare(IF RLess(Z(0), call.shares_outstanding)
                        THEN RDiv(call.base_cashflow, call.shares_outstanding)
                        ELSE call.base_cashflow)

\* What evaluate does: it divides by every share count other than zero, a
\* negative one included, and leaves the base as it is for zero alone.
C11_DividesUnlessZero ==
    (Evaluated /\ ret.ok)
        => UsedPerShare(IF call.shares_outstanding # Z(0)
                        THEN RDiv(call.base_cashflow, call.shares_outstanding)
                        ELSE call.base_cashflow)

\* C11's case: a call with a negative share count returned a valuation whose
\* first cash flow has the sign opposite to the base it was given.
C11_Witness ==
    /\ Evaluated /\ ret.ok
    /\ call.shares_outstanding = Z(-2)
    /\ call.base_cashflow = Z(8)
    /\ Len(call.scenarios) >= 1
    /\ ret.value.scenario_results[1].cashflows[1] = Z(-5)

(***************************************************************************)
(* The orchestrator's scenario construction (backend/valuation_service.py).*)
(* A JSON value of a payload is a tagged record: a number, a list, a       *)
(* non-numeric text, or Missing when the key is not in the payload.        *)
(***************************************************************************)
Num(v)      == [kind |-> "number", v |-> v]
List(items) == [kind |-> "list", items |-> items]
Str(s)      == [kind |-> "text", s |-> s]
Text        == Str(<<"n/a">>)
Missing     == [kind |-> "missing"]

\* dict.get(key, default)
Get(value, default) == IF value.kind = "missing" THEN default ELSE value

\* try: float(value) except (TypeError, ValueError): 0.0
CleanEntry(value) == IF value.kind = "number" THEN value.v ELSE Z(0)

Min(a, b) == IF a < b THEN a ELSE b
Max(a, b) == IF a < b THEN b ELSE a

\* xs[:k], Python's slice: a negative k counts from the end.
SliceTo(xs, k) ==
    IF k >= 0 THEN SubSeq(xs, 1, Min(k, Len(xs)))
    ELSE SubSeq(xs, 1, Max(Len(xs) + k, 0))

\* while len(cleaned) < years: cleaned.append(cleaned[-1])
PadTo(cleaned, years) ==
    [i \in 1..Max(Len(cleaned), years) |->
        IF i <= Len(cleaned) THEN cleaned[i] ELSE cleaned[Len(cleaned)]]

\* A faulty normalization that forgets to truncate.
NormalizeGrowthSeriesMut(raw, years) ==
    IF raw.kind = "number" THEN [i \in 1..Max(years, 1) |-> raw.v]
    ELSE IF raw.kind = "list" /\ raw.items # <<>>
    THEN PadTo([i \in 1..Len(raw.items) |-> CleanEntry(raw.items[i])], years)
    ELSE [i \in 1..Max(years, 1) |-> Z(0)]

NormalizeGrowthSeries(raw, years) ==
    IF raw.kind = "number" THEN [i \in 1..Max(years, 1) |-> raw.v]
    ELSE IF raw.kind = "list" /\ raw.items # <<>>
    THEN SliceTo(PadTo([i \in 1..Len(raw.items) |-> CleanEntry(raw.items[i])], years),
                 years)
    ELSE [i \in 1..Max(years, 1) |-> Z(0)]

\* growth_input = item.get("growth_rates"); if it is None,
\* item.get("growth_rate", 0.0)
GrowthInput(item) ==
    IF item.growth_rates.kind = "missing"
    THEN Get(item.growth_rate, Num(Z(0))) ELSE item.growth_rates

BuildScenarios(scenarios, years) ==
    [k \in 1..Len(scenarios) |->
        LET item == scenarios[k]
        IN  [name              |-> Get(item.name, Str(<<"Scenario", k>>)).s,
             growth_rates      |-> NormalizeGrowthSeries(GrowthInput(item), years),
             terminal_multiple |-> Get(item.terminal_multiple, Num(Z(12))).v,
             probability       |-> Get(item.probability, Num(Z(1))).v]]

(***************************************************************************)
(* GrowthSpec: _build_scenarios applied to bounded payloads and horizons.  *)
(***************************************************************************)
MaxListLen       == 3
MaxForecastYears == 3

GrowthEntries == {Num(Q(1, 4)), Num(Q(-1, 2)), Text}
GrowthLists   == {List(xs) : xs \in BoundedSeq(GrowthEntries, MaxListLen)}
Horizons      == 0..MaxForecastYears

RichItems ==
    [name : {Missing, Str(<<"Bull">>)}, growth_rates : {Missing} \cup GrowthLists,
     growth_rate : {Missing, Num(Q(1, 20)), Text},
     terminal_multiple : {Missing, Num(Z(15))}, probability : {Missing}]

PlainItems ==
    [name : {Missing}, growth_rates : {Missing, List(<<Num(Q(1, 4)), Num(Z(0))>>)},
     growth_rate : {Missing, Num(Q(1, 20))},
     terminal_multiple : {Missing}, probability : {Missing, Num(Q(1, 4))}]

BuildCalls ==
    [op : {"build_scenarios"}, years : Horizons,
     scenarios : {<<item>> : item \in RichItems}
                 \cup {<<a, b>> : a \in PlainItems, b \in PlainItems}]

GrowthInit ==
    /\ IdleState
    /\ call \in BuildCalls
    /\ ret = Pending

CallBuildScenarios ==
    /\ call.op = "build_scenarios"
    /\ ret = Pending
    /\ ret' = Ok(BuildScenarios(call.scenarios, call.years))
    /\ UNCHANGED <<cache, now, produced, pc, loc, call>>

GrowthNext == CallBuildScenarios

GrowthSpec == GrowthInit /\ [][GrowthNext]_vars

(***************************************************************************)
(* Claims about growth-rate normalization, under GrowthSpec.               *)
(***************************************************************************)
Built == call.op = "build_scenarios" /\ ret # Pending

\* The explicit sequence's entries as floats (a non-numeric entry is 0).
Cleaned(raw) == [i \in 1..Len(raw.items) |-> CleanEntry(raw.items[i])]

\* What the claim says of one growth input `raw`, horizon `years` and the
\* resulting sequence g.
NormalizationClaims(raw, years, g) ==
    /\ Len(g) = years
    /\ raw.kind = "number" => \A i \in 1..Len(g) : g[i] = raw.v
    /\ (raw.kind = "list" /\ raw.items # <<>> /\ Len(raw.items) < years)
          => \A i \in 1..Len(g) :
                g[i] = IF i <= Len(raw.items) THEN Cleaned(raw)[i]
                       ELSE Cleaned(raw)[Len(raw.items)]
    /\ (raw.kind = "list" /\ Len(raw.items) > years)
          => \A i \in 1..Len(g) : g[i] = Cleaned(raw)[i]

\* C7 as stated: for a forecast horizon `years`, a scalar growth rate expands
\* to exactly `years` identical entries, a shorter explicit sequence is
\* right-padded with its final element, a longer one is truncated to its
\* first `years` entries, and the result always has length `years`.
C7_LengthIsYears ==
    Built => \A k \in 1..Len(call.scenarios) :
                NormalizationClaims(GrowthInput(call.scenarios[k]), call.years,
                                    ret.value[k].growth_rates)

\* C7 amended: the same, for every horizon `years` >= 1.
C7_LengthIsYearsFromOne ==
    (Built /\ call.years >= 1)
        => \A k \in 1..Len(call.scenarios) :
              NormalizationClaims(GrowthInput(call.scenarios[k]), call.years,
                                  ret.value[k].growth_rates)

\* A two-entry sequence has been padded to a three-year horizon.
C7_Witness ==
    /\ Built
    /\ call.years = 3
    /\ call.scenarios[1].growth_rates = List(<<Num(Q(1, 4)), Num(Q(-1, 2))>>)
    /\ ret.value[1].growth_rates = <<Q(1, 4), Q(-1, 2), Q(-1, 2)>>

(***************************************************************************)
(* Strings the program transforms (tickers, modes) are sequences of        *)
(* characters; str.strip, str.upper and str.lower act character-wise.      *)
(***************************************************************************)
UpperChar(c) ==
    CASE c = "a" -> "A" [] c = "b" -> "B" [] c = "c" -> "C" [] c = "d" -> "D"
      [] c = "f" -> "F" [] c = "m" -> "M" [] OTHER -> c

LowerChar(c) ==
    CASE c = "A" -> "a" [] c = "B" -> "b" [] c = "C" -> "c" [] c = "D" -> "d"
      [] c = "F" -> "f" [] c = "M" -> "m" [] OTHER -> c

Upper(s) == [i \in 1..Len(s) |-> UpperChar(s[i])]
Lower(s) == [i \in 1..Len(s) |-> LowerChar(s[i])]

\* A faulty strip that leaves the text as it is.
StripMut(s) == s

\* str.strip(): without its leading and trailing whitespace.
Strip(s) ==
    LET inked == {i \in 1..Len(s) : s[i] # " "}
    IN  IF inked = {} THEN <<>>
        ELSE LET first == CHOOSE i \in inked : \A j \in inked : i <= j
                 last  == CHOOSE i \in inked : \A j \in inked : j <= i
             IN  SubSeq(s, first, last)

\* A faulty normalization that keeps the letter case.
NormalizeTickerMut(ticker) == Strip(ticker)

\* ticker.strip().upper()
NormalizeTicker(ticker) == Upper(Strip(ticker))

(***************************************************************************)
(* The snapshot provider (backend/data_provider.py).                       *)
(* `data` is what one upstream fetch resolves (lines 39-77): the share     *)
(* count, price and currencies, the FX-scaled histories and trailing       *)
(* dividend, and the metadata scalars.  A cache entry is                   *)
(* [payload, timestamp].  A snapshot warning is its message, <<text>>.     *)
(***************************************************************************)
WarnShares    == <<"Unable to determine shares outstanding. Intrinsic value per share may be inaccurate.">>
WarnCashFlow  == <<"Missing cash flow data. DCF mode will rely on user assumptions only.">>
WarnDividends == <<"No trailing dividends detected. DDM valuations may not be meaningful.">>

SnapshotWarnings(data) ==
    (IF RLeq(data.shares_outstanding, Z(0)) THEN <<WarnShares>> ELSE <<>>)
    \o (IF data.fcf_history = <<>> THEN <<WarnCashFlow>> ELSE <<>>)
    \o (IF RLeq(data.dividends_per_share_ttm, Z(0)) THEN <<WarnDividends>> ELSE <<>>)

\* FinancialSnapshot(ticker=normalized, ...)
BuildSnapshot(normalized, data) ==
    [ticker                  |-> normalized,
     currency                |-> data.currency,
     financial_currency      |-> data.financial_currency,
     shares_outstanding      |-> data.shares_outstanding,
     current_price           |-> data.current_price,
     fcf_history             |-> data.fcf_history,
     owner_earnings_history  |-> data.owner_earnings_history,
     dividends_per_share_ttm |-> data.dividends_per_share_ttm,
     metadata                |-> data.metadata,
     warnings                |-> SnapshotWarnings(data)]

\* The provider's cache_ttl, in clock ticks.
CacheTtl == 2
\* The last instant of the clock.
MaxTime  == 3

CacheFreshMut(cached, time) == time - cached.timestamp <= CacheTtl

\* time.time() - cached["timestamp"] < self.cache_ttl
CacheFresh(cached, time) == time - cached.timestamp < CacheTtl

\* A faulty store that, over an existing entry, keeps the old snapshot's
\* metadata and warnings.
StoreMut(c, normalized, snapshot, time) ==
    [k \in DOMAIN c \cup {normalized} |->
        IF k # normalized THEN c[k]
        ELSE IF normalized \in DOMAIN c
        THEN [payload   |-> [snapshot EXCEPT !.metadata = c[k].payload.metadata,
                                             !.warnings = c[k].payload.warnings],
              timestamp |-> time]
        ELSE [payload |-> snapshot, timestamp |-> time]]

\* self._cache[normalized] = {"payload": snapshot, "timestamp": ...}
Store(c, normalized, snapshot, time) ==
    [k \in DOMAIN c \cup {normalized} |->
        IF k = normalized THEN [payload |-> snapshot, timestamp |-> time] ELSE c[k]]

\* get_snapshot(ticker) as one call: what it returns, whether it fetched, and
\* the cache and clock it leaves.  `data` is what the upstream returns if it
\* is asked, `took` how long the fetch takes.
GetSnapshotCall(c, time, ticker, data, took) ==
    LET normalized == NormalizeTicker(ticker)
    IN  IF normalized = <<>>
        THEN [result |-> Raise(InvalidInput, "Ticker cannot be empty."),
              fetched |-> FALSE, cache |-> c, time |-> time]
        ELSE IF normalized \in DOMAIN c /\ CacheFresh(c[normalized], time)
        THEN [result |-> Ok(c[normalized].payload),
              fetched |-> FALSE, cache |-> c, time |-> time]
        ELSE LET snapshot == BuildSnapshot(normalized, data)
             IN  [result |-> Ok(snapshot), fetched |-> TRUE,
                  cache |-> Store(c, normalized, snapshot, time + took),
                  time |-> time + took]

\* Whether get_snapshot(ticker) goes upstream: a ticker that is not blank and
\* has no fresh entry.
NeedsFetch(c, time, ticker) ==
    LET normalized == NormalizeTicker(ticker)
    IN  /\ normalized # <<>>
        /\ ~(normalized \in DOMAIN c /\ CacheFresh(c[normalized], time))

\* What the upstream may answer a call: <<data, how long it took>>, drawn from
\* Data when the call fetches; a call that does not fetch asks nothing.
NoData == [asked |-> FALSE]
Upstream(ticker, Data, Times) ==
    IF NeedsFetch(cache, now, ticker) THEN Data \X Times ELSE {<<NoData, 0>>}

\* What a call leaves in `ret`: its result and whether it fetched upstream.
Returned(result, fetched) == [result |-> result, fetched |-> fetched]

GetSnapshot(ticker, data, took) ==
    LET r == GetSnapshotCall(cache, now, ticker, data, took)
    IN  /\ r.time <= MaxTime
        /\ call' = [op |-> "get_snapshot", ticker |-> ticker]
        /\ ret' = Returned(r.result, r.fetched)
        /\ cache' = r.cache
        /\ now' = r.time
        /\ produced' = IF r.fetched THEN produced \cup {r.result.value} ELSE produced
        /\ UNCHANGED <<pc, loc>>

\* Time passes.
Tick ==
    /\ now < MaxTime
    /\ now' = now + 1
    /\ UNCHANGED <<cache, produced, pc, loc, call, ret>>

(***************************************************************************)
(* The orchestrator (backend/valuation_service.py).  A payload is a record *)
(* of JSON values, Missing for a key the request does not carry.           *)
(***************************************************************************)
Bool(b) == [kind |-> "bool", v |-> b]

\* bool(value) of a JSON value.
Truthy(value) ==
    CASE value.kind = "bool"   -> value.v
      [] value.kind = "number" -> value.v # Z(0)
      [] value.kind = "text"   -> value.s # <<>>
      [] value.kind = "list"   -> value.items # <<>>
      [] OTHER -> FALSE

\* int(x): towards zero.
Trunc(a) == IF a.n >= 0 THEN a.n \div a.d ELSE -((-a.n) \div a.d)

DefaultItem(name, growth_rate, terminal_multiple, probability) ==
    [name |-> Str(name), growth_rates |-> Missing, growth_rate |-> Num(growth_rate),
     terminal_multiple |-> Num(terminal_multiple), probability |-> Num(probability)]

DEFAULT_SCENARIOS ==
    <<DefaultItem(<<"Bear">>, Q(2, 100), Z(10), Q(25, 100)),
      DefaultItem(<<"Base">>, Q(5, 100), Z(12), Q(5, 10)),
      DefaultItem(<<"Bull">>, Q(8, 100), Z(15), Q(25, 100))>>

\* payload.get("scenarios") or DEFAULT_SCENARIOS
ScenariosPayload(payload) ==
    IF Truthy(payload.scenarios) THEN payload.scenarios.items ELSE DEFAULT_SCENARIOS

\* The request's parameters with their defaults (lines 25-36).
Resolve(payload) ==
    [ticker             |-> NormalizeTicker(Get(payload.ticker, Str(<<>>)).s),
     mode               |-> Lower(Get(payload.mode, Str(<<"d", "c", "f">>)).s),
     forecast_years     |-> Trunc(Get(payload.forecast_years, Num(Z(10))).v),
     discount_rate      |-> Get(payload.discount_rate, Num(Q(1, 10))).v,
     margin_of_safety   |-> Get(payload.margin_of_safety, Num(Q(3, 10))).v,
     use_owner_earnings |-> Truthy(Get(payload.use_owner_earnings, Bool(FALSE)))]

SelectBaseCashflow(snapshot, use_owner_earnings) ==
    LET history == IF use_owner_earnings THEN snapshot.owner_earnings_history
                   ELSE snapshot.fcf_history
    IN  IF history # <<>> THEN history[1]
        ELSE RSub(snapshot.metadata.latest_operating_cash_flow,
                  snapshot.metadata.latest_capex)

\* A faulty mode branch that passes the snapshot's share count in "ddm" too.
EngineInputsMut(mode, snapshot, use_owner_earnings) ==
    IF mode = <<"d", "d", "m">>
    THEN [base_cashflow      |-> snapshot.dividends_per_share_ttm,
          shares_outstanding |-> snapshot.shares_outstanding]
    ELSE [base_cashflow      |-> SelectBaseCashflow(snapshot, use_owner_earnings),
          shares_outstanding |-> snapshot.shares_outstanding]

\* The base cash flow and share count valuate hands to the engine.
EngineInputs(mode, snapshot, use_owner_earnings) ==
    IF mode = <<"d", "d", "m">>
    THEN [base_cashflow      |-> snapshot.dividends_per_share_ttm,
          shares_outstanding |-> Z(1)]
    ELSE [base_cashflow      |-> SelectBaseCashflow(snapshot, use_owner_earnings),
          shares_outstanding |-> snapshot.shares_outstanding]

ScenarioOutput(item) ==
    [name                      |-> item.name,
     intrinsic_value           |-> item.intrinsic_value,
     buy_price                 |-> item.buy_price,
     upside_pct                |-> item.upside,
     downside_pct              |-> item.downside,
     margin_of_safety_pct      |-> item.margin_of_safety_pct,
     growth_rates              |-> item.effective_growth_rates,
     terminal_multiple         |-> item.terminal_multiple,
     cashflows                 |-> item.cashflows,
     discounted_cashflows      |-> item.discounted_cashflows,
     terminal_value            |-> item.terminal_value,
     discounted_terminal_value |-> item.discounted_terminal_value,
     warnings                  |-> item.warnings]

FormatResponse(payload, snapshot, valuation, mode, use_owner_earnings) ==
    [ticker                     |-> snapshot.ticker,
     mode                       |-> mode,
     currency                   |-> snapshot.currency,
     current_price              |-> snapshot.current_price,
     use_owner_earnings         |-> use_owner_earnings,
     shares_outstanding         |-> snapshot.shares_outstanding,
     weighted_intrinsic_value   |-> valuation.weighted_intrinsic_value,
     margin_of_safety_buy_price |-> valuation.margin_of_safety_buy_price,
     scenarios                  |-> [i \in 1..Len(valuation.scenario_results) |->
                                       ScenarioOutput(valuation.scenario_results[i])],
     global_warnings            |-> Dedupe(snapshot.warnings \o valuation.warnings),
     inputs                     |-> payload,
     snapshot                   |-> [fcf_history             |-> snapshot.fcf_history,
                                     owner_earnings_history  |-> snapshot.owner_earnings_history,
                                     dividends_per_share_ttm |-> snapshot.dividends_per_share_ttm,
                                     metadata                |-> snapshot.metadata]]

\* return self._format_response(...), unless evaluate raised.
Respond(payload, snapshot, p, valuation) ==
    IF ~valuation.ok THEN valuation
    ELSE Ok(FormatResponse(payload, snapshot, valuation.value, p.mode,
                           p.use_owner_earnings))

\* The engine call of valuate's mode branch (lines 42-58).
ModeBranch(p, snapshot, inputs, profiles) ==
    Evaluate(IF p.mode = <<"d", "d", "m">>
             THEN DividendDiscountModel(p.discount_rate, p.margin_of_safety)
             ELSE DiscountedCashFlowModel(p.discount_rate, p.margin_of_safety),
             inputs.base_cashflow, snapshot.current_price,
             inputs.shares_outstanding, profiles)

\* valuate around its get_snapshot call (lines 36-60), p being the resolved
\* parameters.
ValuateResolved(payload, snapshot, p) ==
    Respond(payload, snapshot, p,
            ModeBranch(p, snapshot,
                       EngineInputs(p.mode, snapshot, p.use_owner_earnings),
                       BuildScenarios(ScenariosPayload(payload), p.forecast_years)))

ValuateSnapshot(payload, snapshot) ==
    ValuateResolved(payload, snapshot, Resolve(payload))

\* valuate(payload), with what the upstream returns if the provider asks it.
Valuate(payload, data, took) ==
    LET p == Resolve(payload)
    IN  /\ call' = [op |-> "valuate", payload |-> payload]
        /\ UNCHANGED <<pc, loc>>
        /\ IF p.ticker = <<>>
           THEN /\ ret' = Returned(Raise(InvalidInput, "Ticker is required."), FALSE)
                /\ UNCHANGED <<cache, now, produced>>
           ELSE LET r == GetSnapshotCall(cache, now, p.ticker, data, took)
                IN  /\ r.time <= MaxTime
                    /\ ret' = Returned(ValuateSnapshot(payload, r.result.value), r.fetched)
                    /\ cache' = r.cache
                    /\ now' = r.time
                    /\ produced' = IF r.fetched THEN produced \cup {r.result.value}
                                   ELSE produced

(***************************************************************************)
(* What the upstream can return.  The statements decide the histories      *)
(* together: without a cash-flow table both histories are empty and the    *)
(* cash-flow scalars are 0; without an income statement the owner-earnings *)
(* history is empty.                                                       *)
(***************************************************************************)
Metadata(operating_cash_flow, capex, revenue, net_income) ==
    [latest_revenue             |-> revenue,
     latest_net_income          |-> net_income,
     latest_operating_cash_flow |-> operating_cash_flow,
     latest_capex               |-> capex,
     fx_rate                    |-> Z(1),
     financial_currency         |-> "USD"]

Statements ==
    {[fcf_history |-> <<>>, owner_earnings_history |-> <<>>,
      metadata |-> Metadata(Z(0), Z(0), Z(0), Z(0))],
     [fcf_history |-> <<Z(8), Z(6)>>, owner_earnings_history |-> <<>>,
      metadata |-> Metadata(Z(10), Z(2), Z(0), Z(0))],
     [fcf_history |-> <<Z(8), Z(6)>>, owner_earnings_history |-> <<Z(6), Z(5)>>,
      metadata |-> Metadata(Z(10), Z(2), Z(40), Z(4))]}

Fetched(statements, shares_outstanding, current_price, dividends) ==
    [currency                |-> "USD",
     financial_currency      |-> "USD",
     shares_outstanding      |-> shares_outstanding,
     current_price           |-> current_price,
     fcf_history             |-> statements.fcf_history,
     owner_earnings_history  |-> statements.owner_earnings_history,
     dividends_per_share_ttm |-> dividends,
     metadata                |-> statements.metadata]

ServiceData ==
    {Fetched(st, sh, pr, dv) :
        st \in Statements, sh \in {Z(0), Z(2)}, pr \in {Z(0), Z(4)}, dv \in {Z(0), Z(1)}}

\* Two upstream answers that differ in every field that can differ.
ProviderData ==
    {Fetched(CHOOSE st \in Statements : st.fcf_history = <<>>, Z(0), Z(0), Z(0)),
     Fetched(CHOOSE st \in Statements : st.owner_earnings_history # <<>>, Z(2), Z(4), Z(1))}

FetchTimes == {0, 1}

(***************************************************************************)
(* Spec: one provider and the service over it, called one call at a time.  *)
(***************************************************************************)
Tickers ==
    {<<>>, <<" ">>, <<" ", " ">>, <<"a">>, <<"A">>, <<" ", "a", " ">>, <<"b">>}

Payload(ticker, mode, forecast_years, discount_rate, margin_of_safety, use_owner_earnings, scenarios) ==
    [ticker |-> ticker, mode |-> mode, forecast_years |-> forecast_years,
     discount_rate |-> discount_rate, margin_of_safety |-> margin_of_safety,
     use_owner_earnings |-> use_owner_earnings, scenarios |-> scenarios]

OneScenario ==
    List(<<[name |-> Missing, growth_rates |-> Missing, growth_rate |-> Num(Q(1, 4)),
            terminal_multiple |-> Num(Z(24)), probability |-> Missing]>>)

Requests ==
    {Payload(t, Missing, Num(Z(1)), Num(Q(1, 4)), Missing, Missing, OneScenario) :
        t \in {Missing, Str(<<" ">>), Str(<<"a">>), Str(<<"b", " ">>)}}

Init ==
    /\ IdleState
    /\ call = NoCall
    /\ ret = Returned(Pending, FALSE)

Next ==
    \/ Tick
    \/ \E ticker \in Tickers :
          \E up \in Upstream(ticker, ProviderData, FetchTimes) :
             GetSnapshot(ticker, up[1], up[2])
    \/ \E payload \in Requests :
          \E up \in Upstream(Resolve(payload).ticker, ProviderData, FetchTimes) :
             Valuate(payload, up[1], up[2])

Spec == Init /\ [][Next]_vars

(***************************************************************************)
(* Claims about the provider's cache and the blank ticker, under Spec.     *)
(***************************************************************************)
\* A step that is a get_snapshot call (a step of the clock changes `now`
\* alone; a call that changes nothing is a stuttering step).
GetSnapshotStep ==
    /\ call'.op = "get_snapshot"
    /\ <<cache, produced, call, ret>>' # <<cache, produced, call, ret>>

\* What a get_snapshot call for the key k must do, by the age of k's entry.
CacheContract(k) ==
    IF k \in DOMAIN cache /\ now - cache[k].timestamp < CacheTtl
    THEN /\ ret' = Returned(Ok(cache[k].payload), FALSE)
         /\ cache' = cache
         /\ produced' = produced
    ELSE /\ ret'.fetched
         /\ ret'.result.ok
         /\ ret'.result.value \in produced'
         /\ DOMAIN cache' = DOMAIN cache \cup {k}
         /\ cache'[k] = [payload |-> ret'.result.value, timestamp |-> now']
         /\ \A j \in DOMAIN cache \ {k} : cache'[j] = cache[j]

\* C1: every get_snapshot call for a ticker that is not blank returns the
\* cached snapshot unchanged, without an upstream fetch and without touching
\* the cache, when the ticker's entry has age < cache_ttl; with no entry, or
\* one of age >= cache_ttl, it fetches upstream and replaces the entry with
\* the new snapshot and the time of the store.
C1_CacheContract ==
    [][GetSnapshotStep =>
          LET k == NormalizeTicker(call'.ticker)
          IN  k # <<>> => CacheContract(k)]_vars

\* C1's case: a get_snapshot call has fetched a ticker again, its earlier
\* entry having reached the TTL, and the entry now holds the new snapshot.
C1_Witness ==
    /\ call.op = "get_snapshot"
    /\ ret.fetched
    /\ \E s \in produced : /\ s.ticker = ret.result.value.ticker
                           /\ s # ret.result.value
    /\ cache[ret.result.value.ticker].payload = ret.result.value
    /\ cache[ret.result.value.ticker].timestamp >= CacheTtl

\* The ticker a call was given, as the caller wrote it.
GivenTicker(c) ==
    IF c.op = "get_snapshot" THEN c.ticker
    ELSE IF c.payload.ticker = Missing THEN <<>> ELSE c.payload.ticker.s

Blank(s) == \A i \in 1..Len(s) : s[i] = " "

\* C2: a get_snapshot or valuate call whose ticker is empty after trimming
\* fails with InvalidInput, fetches nothing upstream and leaves the cache as
\* it was.
C2_BlankTickerRejected ==
    [][(call'.op \in {"get_snapshot", "valuate"} /\ Blank(GivenTicker(call')))
          => /\ ~ret'.result.ok
             /\ ret'.result.error = InvalidInput
             /\ ~ret'.fetched
             /\ cache' = cache
             /\ produced' = produced]_vars

\* C2's case: valuate was given a ticker of whitespace while the cache held
\* entries, and failed.
C2_Witness ==
    /\ call.op = "valuate"
    /\ call.payload.ticker = Str(<<" ">>)
    /\ ~ret.result.ok
    /\ ret.result.error = InvalidInput
    /\ cache # EmptyCache

LowerCaseLetters == {"a", "b", "c", "d", "f", "m"}

\* A non-empty, trimmed, uppercase ticker.
Canonical(k) ==
    /\ k # <<>>
    /\ k[1] # " " /\ k[Len(k)] # " "
    /\ \A i \in 1..Len(k) : k[i] \notin LowerCaseLetters

\* Every key is canonical and holds a snapshot of that ticker, and no two
\* keys differ only in letter case.
KeysCanonical ==
    /\ \A k \in DOMAIN cache : Canonical(k) /\ cache[k].payload.ticker = k
    /\ \A k1, k2 \in DOMAIN cache : Lower(k1) = Lower(k2) => k1 = k2

\* Two tickers that differ at most in letter case and surrounding whitespace.
SameTicker(a, b) == Lower(Strip(a)) = Lower(Strip(b))

\* C13: after every call the cache keys are non-empty, trimmed, uppercase
\* tickers, each holding a snapshot with the key as its ticker; and a
\* get_snapshot call for a ticker that differs only in letter case or
\* surrounding whitespace from the ticker of an entry younger than the TTL
\* returns that entry's snapshot without an upstream fetch or a new entry.
C13_CanonicalKeys ==
    [][/\ KeysCanonical'
       /\ GetSnapshotStep =>
             \A k \in DOMAIN cache :
                (SameTicker(k, call'.ticker) /\ now - cache[k].timestamp < CacheTtl)
                   => /\ ret' = Returned(Ok(cache[k].payload), FALSE)
                      /\ cache' = cache
                      /\ produced' = produced]_vars

\* C13's case: a get_snapshot call for " a ", made after the entry "A" was
\* stored and within its TTL, returned the entry's snapshot without a fetch,
\* and "A" is the only key.
C13_Witness ==
    /\ call.op = "get_snapshot"
    /\ call.ticker = <<" ", "a", " ">>
    /\ ~ret.fetched
    /\ DOMAIN cache = {<<"A">>}
    /\ ret.result = Ok(cache[<<"A">>].payload)
    /\ now > cache[<<"A">>].timestamp
    /\ Cardinality(produced) = 1

(***************************************************************************)
(* ServiceSpec: valuate over every upstream answer and a wider range of    *)
(* requests for one ticker; the upstream answers at once.                  *)
(***************************************************************************)
MaxServiceYears == 2

ExplicitScenarios ==
    {OneScenario,
     List(<<[name |-> Str(<<"Bull">>), growth_rates |-> List(<<Num(Q(1, 4)), Num(Q(-1, 2))>>),
             growth_rate |-> Missing, terminal_multiple |-> Missing,
             probability |-> Num(Z(0))]>>)}

ServiceRequests ==
    {Payload(Str(<<"a">>), m, Num(Z(y)), Num(Q(1, 4)), Missing, own, sc) :
        m \in {Missing, Str(<<"D", "D", "M">>)},
        y \in 0..MaxServiceYears,
        own \in {Missing, Bool(TRUE)},
        sc \in {Missing} \cup ExplicitScenarios}
    \cup {Payload(Str(<<"a">>), Str(<<"d", "d", "m">>), Num(Z(1)), Num(Q(1, 4)),
                  Missing, Missing, OneScenario),
          Payload(Str(<<"a">>), Missing, Num(Z(1)), Num(Q(1, 4)),
                  Missing, Missing, List(<<>>))}

ServiceNext ==
    \E payload \in ServiceRequests :
       \E up \in Upstream(Resolve(payload).ticker, ServiceData, {0}) :
          Valuate(payload, up[1], up[2])

ServiceSpec == Init /\ [][ServiceNext]_vars

(***************************************************************************)
(* Claims about valuate, under ServiceSpec.  The clock stands still there,  *)
(* so the snapshot a call worked on is the ticker's cache entry.            *)
(***************************************************************************)
Valuated == call.op = "valuate"

SnapshotUsed == cache[Resolve(call.payload).ticker].payload

ProfilesUsed ==
    BuildScenarios(ScenariosPayload(call.payload), Resolve(call.payload).forecast_years)

\* The engine's answer for a base cash flow and a share count, under the
\* request's rates and scenarios and the snapshot's price.
EngineAnswer(base_cashflow, shares_outstanding) ==
    Evaluate(DiscountedCashFlowModel(Resolve(call.payload).discount_rate,
                                     Resolve(call.payload).margin_of_safety),
             base_cashflow, SnapshotUsed.current_price, shares_outstanding,
             ProfilesUsed)

\* That valuate returned what the engine answers: its exception, or its
\* weighted values and scenario results in the response.
ReturnedAnswer(answer) ==
    IF ~answer.ok THEN ret.result = answer
    ELSE /\ ret.result.ok
         /\ ret.result.value.weighted_intrinsic_value
               = answer.value.weighted_intrinsic_value
         /\ ret.result.value.margin_of_safety_buy_price
               = answer.value.margin_of_safety_buy_price
         /\ ret.result.value.scenarios
               = [i \in 1..Len(answer.value.scenario_results) |->
                     ScenarioOutput(answer.value.scenario_results[i])]

\* C8: valuate in mode "ddm" returns the engine's answer for the snapshot's
\* trailing dividend per share and a share count of 1 (an answer in which
\* the snapshot's share count, its histories and the owner-earnings toggle
\* do not occur); in any other mode it returns the engine's answer for the
\* selected history's latest value, or the metadata fallback, and the
\* snapshot's share count.
C8_ModeBranching ==
    Valuated =>
        IF Resolve(call.payload).mode = <<"d", "d", "m">>
        THEN ReturnedAnswer(EngineAnswer(SnapshotUsed.dividends_per_share_ttm, Z(1)))
        ELSE ReturnedAnswer(
                EngineAnswer(SelectBaseCashflow(SnapshotUsed,
                                Resolve(call.payload).use_owner_earnings),
                             SnapshotUsed.shares_outstanding))

\* C8's case: a "ddm" valuation, asked for in capitals with the toggle set,
\* of a snapshot with dividends, histories and a share count other than 1.
C8_Witness ==
    /\ Valuated
    /\ call.payload.mode = Str(<<"D", "D", "M">>)
    /\ call.payload.use_owner_earnings = Bool(TRUE)
    /\ ret.result.ok
    /\ ret.result.value.mode = <<"d", "d", "m">>
    /\ SnapshotUsed.shares_outstanding = Z(2)
    /\ SnapshotUsed.owner_earnings_history # <<>>
    /\ SnapshotUsed.dividends_per_share_ttm = Z(1)
    /\ RLess(Z(0), ret.result.value.weighted_intrinsic_value)

Range(s) == {s[i] : i \in 1..Len(s)}

\* C9: for a ticker that is not blank and scenarios of at least one forecast
\* year each, valuate returns a result whatever the snapshot; an unknown
\* share count, a missing cash-flow history and missing dividends each show
\* as a warning of that result.
C9_MissingDataOnlyWarns ==
    (/\ Valuated
     /\ ~Blank(GivenTicker(call))
     /\ \A i \in 1..Len(ProfilesUsed) : Len(ProfilesUsed[i].growth_rates) >= 1)
    => /\ ret.result.ok
       /\ RLeq(SnapshotUsed.shares_outstanding, Z(0))
             => WarnShares \in Range(ret.result.value.global_warnings)
       /\ SnapshotUsed.fcf_history = <<>>
             => WarnCashFlow \in Range(ret.result.value.global_warnings)
       /\ RLeq(SnapshotUsed.dividends_per_share_ttm, Z(0))
             => WarnDividends \in Range(ret.result.value.global_warnings)

\* C9's case: a valuation in the default mode of a snapshot with no share
\* count, no price, no histories and no dividends, returned with the three
\* warnings.
C9_Witness ==
    /\ Valuated
    /\ call.payload.mode = Missing
    /\ SnapshotUsed.shares_outstanding = Z(0)
    /\ SnapshotUsed.current_price = Z(0)
    /\ SnapshotUsed.fcf_history = <<>>
    /\ SnapshotUsed.owner_earnings_history = <<>>
    /\ SnapshotUsed.dividends_per_share_ttm = Z(0)
    /\ ret.result.ok
    /\ {WarnShares, WarnCashFlow, WarnDividends}
          \subseteq Range(ret.result.value.global_warnings)

(***************************************************************************)
(* ConcSpec: get_snapshot run by several threads on one provider with no   *)
(* lock.  A thread's call is cut where another thread can run in between:  *)
(* after it normalized the ticker, after it looked the entry up and judged *)
(* its age, after the upstream answered and the snapshot was built, and    *)
(* after the entry was assigned.  The lookup reads the entry object once   *)
(* (`cached`), and the assignment of line 99 binds a finished entry to the *)
(* key in one dictionary store.                                            *)
(***************************************************************************)
ConcTickers == {<<"a">>, <<"A", " ">>, <<" ">>}

\* Lines 30-33: normalize the ticker, raise if nothing is left.
Enter(t, ticker) ==
    /\ pc[t] = "idle"
    /\ IF NormalizeTicker(ticker) = <<>>
       THEN /\ pc' = [pc EXCEPT ![t] = "done"]
            /\ loc' = [loc EXCEPT ![t] =
                          [ticker |-> ticker, normalized |-> <<>>,
                           result |-> Raise(InvalidInput, "Ticker cannot be empty.")]]
       ELSE /\ pc' = [pc EXCEPT ![t] = "lookup"]
            /\ loc' = [loc EXCEPT ![t] =
                          [ticker |-> ticker, normalized |-> NormalizeTicker(ticker)]]
    /\ UNCHANGED <<cache, now, produced, call, ret>>

\* Lines 35-37: return the entry's payload if the entry is fresh.
Lookup(t) ==
    /\ pc[t] = "lookup"
    /\ IF /\ loc[t].normalized \in DOMAIN cache
          /\ CacheFresh(cache[loc[t].normalized], now)
       THEN /\ pc' = [pc EXCEPT ![t] = "done"]
            /\ loc' = [loc EXCEPT ![t] =
                          [ticker |-> loc[t].ticker, normalized |-> loc[t].normalized,
                           result |-> Ok(cache[loc[t].normalized].payload)]]
       ELSE /\ pc' = [pc EXCEPT ![t] = "fetch"]
            /\ loc' = loc
    /\ UNCHANGED <<cache, now, produced, call, ret>>

\* Lines 39-97: ask the upstream and build the snapshot.
Fetch(t, data, took) ==
    /\ pc[t] = "fetch"
    /\ now + took <= MaxTime
    /\ now' = now + took
    /\ pc' = [pc EXCEPT ![t] = "store"]
    /\ loc' = [loc EXCEPT ![t] =
                  [ticker |-> loc[t].ticker, normalized |-> loc[t].normalized,
                   snapshot |-> BuildSnapshot(loc[t].normalized, data)]]
    /\ produced' = produced \cup {BuildSnapshot(loc[t].normalized, data)}
    /\ UNCHANGED <<cache, call, ret>>

\* Lines 99-100: assign the entry and return the snapshot.
Publish(t) ==
    /\ pc[t] = "store"
    /\ cache' = Store(cache, loc[t].normalized, loc[t].snapshot, now)
    /\ pc' = [pc EXCEPT ![t] = "done"]
    /\ loc' = [loc EXCEPT ![t] =
                  [ticker |-> loc[t].ticker, normalized |-> loc[t].normalized,
                   result |-> Ok(loc[t].snapshot)]]
    /\ UNCHANGED <<now, produced, call, ret>>

\* The caller has its answer; the thread is free for another call.
Leave(t) ==
    /\ pc[t] = "done"
    /\ pc' = [pc EXCEPT ![t] = "idle"]
    /\ loc' = [loc EXCEPT ![t] = NoCall]
    /\ UNCHANGED <<cache, now, produced, call, ret>>

ConcNext ==
    \/ Tick
    \/ \E t \in Threads :
          \/ \E ticker \in ConcTickers : Enter(t, ticker)
          \/ Lookup(t)
          \/ \E data \in ProviderData, took \in FetchTimes : Fetch(t, data, took)
          \/ Publish(t)
          \/ Leave(t)

ConcSpec == Init /\ [][ConcNext]_vars

\* A whole snapshot of the key k: one that a single fetch for k built.
WholeSnapshot(s, k) == s \in produced /\ s.ticker = k

\* C10: under every interleaving of unlocked get_snapshot calls, each cache
\* entry holds a whole snapshot built by one fetch for its key, with a
\* timestamp the clock has shown, and every call that returns a snapshot
\* returns a whole one for its ticker.
C10_WholeSnapshots ==
    /\ \A k \in DOMAIN cache :
          /\ DOMAIN cache[k] = {"payload", "timestamp"}
          /\ WholeSnapshot(cache[k].payload, k)
          /\ cache[k].timestamp \in 0..now
    /\ \A t \in Threads :
          (pc[t] = "done" /\ loc[t].result.ok)
             => WholeSnapshot(loc[t].result.value, loc[t].normalized)

\* C10's case: the race happened.  Both threads fetched the same ticker
\* within the TTL, the upstream answered them differently, both returned,
\* and the entry is the snapshot of the one that stored last.
C10_Witness ==
    /\ \A t \in Threads : pc[t] = "done" /\ loc[t].result.ok
    /\ loc[1].normalized = loc[2].normalized
    /\ loc[1].result.value # loc[2].result.value
    /\ now < CacheTtl
    /\ cache[loc[1].normalized].payload = loc[2].result.value

(***************************************************************************)
(* FX rate resolution (_resolve_fx_rate).  A currency code is a sequence   *)
(* of characters.  What a lookup of a pair meets upstream is an FX answer: *)
(* either the lookup raises, or it yields a fast_info with a value under   *)
(* each of the keys "lastPrice" and "last_price", None when the key is     *)
(* absent.                                                                 *)
(***************************************************************************)
None == [kind |-> "none"]
Price(v) == [kind |-> "number", v |-> v]

FxRaises == [raises |-> TRUE]
FastInfo(lastPrice, last_price) ==
    [raises |-> FALSE, lastPrice |-> lastPrice, last_price |-> last_price]

\* f"{a}{b}=X"
Pair(a, b) == a \o b \o <<"=", "X">>

\* x or y, for prices: x unless it is None or 0.
OrElse(x, y) == IF x # None /\ x.v # Z(0) THEN x ELSE y

\* One turn of the loop (lines 164-171): the rate it returns, or None when
\* the turn falls through to the next pair, by exception or by price.
TryPair(answer, invert) ==
    IF answer.raises THEN None
    ELSE LET price == OrElse(answer.lastPrice, answer.last_price)
         IN  IF price # None /\ price.v # Z(0) /\ RLess(Z(0), price.v)
             THEN Price(IF invert THEN RDiv(Z(1), price.v) ELSE price.v)
             ELSE None

\* The loop over (pair_direct, False), (pair_inverse, True), and the default
\* after it; `lookups` are the pairs asked upstream, in order.
FxLoop(pair_direct, pair_inverse, direct, inverse) ==
    IF direct # None
    THEN [result |-> Ok(direct.v), lookups |-> <<pair_direct>>]
    ELSE IF inverse # None
    THEN [result |-> Ok(inverse.v), lookups |-> <<pair_direct, pair_inverse>>]
    ELSE [result |-> Ok(Z(1)), lookups |-> <<pair_direct, pair_inverse>>]

\* A faulty resolution that returns the inverse pair's quote as it is.
ResolveFxRateMut(financial_currency, market_currency, quotes) ==
    IF \/ Upper(financial_currency) = <<>>
       \/ Upper(market_currency) = <<>>
       \/ Upper(financial_currency) = Upper(market_currency)
    THEN [result |-> Ok(Z(1)), lookups |-> <<>>]
    ELSE FxLoop(Pair(Upper(financial_currency), Upper(market_currency)),
                Pair(Upper(market_currency), Upper(financial_currency)),
                TryPair(quotes[Pair(Upper(financial_currency), Upper(market_currency))], FALSE),
                TryPair(quotes[Pair(Upper(market_currency), Upper(financial_currency))], FALSE))

\* _resolve_fx_rate(financial_currency, market_currency); `quotes` is what
\* the upstream answers for each pair.
ResolveFxRate(financial_currency, market_currency, quotes) ==
    IF \/ Upper(financial_currency) = <<>>
       \/ Upper(market_currency) = <<>>
       \/ Upper(financial_currency) = Upper(market_currency)
    THEN [result |-> Ok(Z(1)), lookups |-> <<>>]
    ELSE FxLoop(Pair(Upper(financial_currency), Upper(market_currency)),
                Pair(Upper(market_currency), Upper(financial_currency)),
                TryPair(quotes[Pair(Upper(financial_currency), Upper(market_currency))], FALSE),
                TryPair(quotes[Pair(Upper(market_currency), Upper(financial_currency))], TRUE))

(***************************************************************************)
(* FxSpec: _resolve_fx_rate applied to every pair of currencies and every  *)
(* pair of upstream answers.                                               *)
(***************************************************************************)
Currencies == {<<>>, <<"C", "A", "D">>, <<"c", "a", "d">>, <<"D", "M">>}

FxPrices == {None, Price(Z(0)), Price(Z(-2)), Price(Z(4)), Price(Q(1, 4))}

FxAnswers == {FxRaises} \cup {FastInfo(a, b) : a \in FxPrices, b \in FxPrices}

FxCalls ==
    [op : {"resolve_fx_rate"}, financial_currency : Currencies,
     market_currency : Currencies, direct : FxAnswers, inverse : FxAnswers]

\* The upstream of a call: its answer for the direct pair and for the
\* inverse pair.
FxQuotes(c) ==
    [p \in {Pair(Upper(c.financial_currency), Upper(c.market_currency)),
            Pair(Upper(c.market_currency), Upper(c.financial_currency))} |->
        IF p = Pair(Upper(c.financial_currency), Upper(c.market_currency))
        THEN c.direct ELSE c.inverse]

FxInit ==
    /\ IdleState
    /\ call \in FxCalls
    /\ ret = Pending

CallResolveFxRate ==
    /\ call.op = "resolve_fx_rate"
    /\ ret = Pending
    /\ ret' = ResolveFxRate(call.financial_currency, call.market_currency, FxQuotes(call))
    /\ UNCHANGED <<cache, now, produced, pc, loc, call>>

FxNext == CallResolveFxRate

FxSpec == FxInit /\ [][FxNext]_vars

Resolved == call.op = "resolve_fx_rate" /\ ret # Pending

\* Two codes match when they are the same up to letter case; a code is
\* empty when it has no character.
NoLookupNeeded ==
    \/ call.financial_currency = <<>>
    \/ call.market_currency = <<>>
    \/ Upper(call.financial_currency) = Upper(call.market_currency)

\* The quote of an answer: its "lastPrice", or its "last_price" when the
\* former is absent or 0.  A lookup succeeds with a positive price when it
\* does not raise and its quote is a number > 0.
Quote(answer) == OrElse(answer.lastPrice, answer.last_price)

PositiveQuote(answer) ==
    /\ ~answer.raises
    /\ Quote(answer) # None
    /\ RLess(Z(0), Quote(answer).v)

\* C12: FX rate resolution never raises and returns a rate > 0: 1 when the
\* currencies match or one is empty, without any lookup; otherwise the
\* direct pair's quote when that lookup gives a positive price; otherwise
\* the reciprocal of the inverse pair's quote when that is positive, the
\* inverse pair being asked only after the direct one gave nothing;
\* otherwise 1.
C12_FxRate ==
    Resolved =>
        /\ ret.result.ok
        /\ RLess(Z(0), ret.result.value)
        /\ IF NoLookupNeeded
           THEN ret.result.value = Z(1) /\ ret.lookups = <<>>
           ELSE IF PositiveQuote(call.direct)
           THEN /\ ret.result.value = Quote(call.direct).v
                /\ Len(ret.lookups) = 1
           ELSE /\ Len(ret.lookups) = 2
                /\ ret.lookups[2] = Pair(Upper(call.market_currency),
                                         Upper(call.financial_currency))
                /\ ret.result.value = IF PositiveQuote(call.inverse)
                                      THEN RDiv(Z(1), Quote(call.inverse).v)
                                      ELSE Z(1)
        /\ Len(ret.lookups) >= 1
              => ret.lookups[1] = Pair(Upper(call.financial_currency),
                                       Upper(call.market_currency))

\* C12's case: the direct lookup raised, the inverse pair quoted 4 under
\* "last_price" alone, and the rate is 1/4.
C12_Witness ==
    /\ Resolved
    /\ call.financial_currency = <<"c", "a", "d">>
    /\ call.market_currency = <<"D", "M">>
    /\ call.direct = FxRaises
    /\ call.inverse = FastInfo(None, Price(Z(4)))
    /\ ret.result = Ok(Q(1, 4))
    /\ ret.lookups = <<<<"C", "A", "D", "D", "M", "=", "X">>,
                       <<"D", "M", "C", "A", "D", "=", "X">>>>

====
